---- MODULE Spec2Model ----
(***************************************************************************)
(* Model of the IDB wrapper class of src/src/index.ts: one handle          *)
(* (#db, #schema), its open() requests, its transaction() calls and the    *)
(* nine data operations, run against a host storage engine whose events    *)
(* (success, error, blocked, upgradeneeded, complete, abort) arrive in any *)
(* order the engine allows.  Every action is one task of the event loop:  *)
(* the host event, the handler the wrapper registered for it and the       *)
(* microtasks (promise continuations) that run before the next task.       *)
(***************************************************************************)
EXTENDS Integers, Sequences, FiniteSets, TLC

\* ---------------------------------------------------------------- bounds
MaxOpen == 2      \* open() calls on the handle
MaxTx == 1        \* transaction() / data-operation calls on the handle
MaxKey == 1       \* record keys are 1..MaxKey
MaxSets == 1      \* assignments to the schema setter
MaxReq == 1       \* requests a caller's callback awaits in one transaction
MaxOps == 2       \* data-operation calls of the data-operation specification

OpenIds == 1..MaxOpen
TxIds == 1..MaxTx
OpIds == 1..MaxOps
CallIds == TxIds \cup OpIds
Keys == 1..MaxKey
Vals == {"a", "b"}
NoRec == "-"
StoreNames == {"items", "logs"}
IndexNames == {"byV"}
NoDb == 0

\* ---------------------------------------------------------------- values
\* Every JavaScript value the model handles: undefined, a key, a record
\* {id: k, v: x}, a number, an array (l), an error object, the handle.
V(tag, k, x, l) == [tag |-> tag, k |-> k, x |-> x, l |-> l]
Undef == V("undefined", 0, "", <<>>)
KeyV(k) == V("key", k, "", <<>>)
RecV(k, x) == V("record", k, x, <<>>)
NumV(n) == V("number", n, "", <<>>)
ListV(l) == V("array", 0, "", l)
ErrV(name) == V("error", 0, name, <<>>)
HandleV == V("handle", 0, "", <<>>)
CbValue == V("value", 0, "R", <<>>)

NotInitialized == ErrV("NotInitialized")
InvalidStateError == ErrV("InvalidStateError")
NotFoundError == ErrV("NotFoundError")
ConstraintError == ErrV("ConstraintError")
UnknownError == ErrV("UnknownError")
AbortError == ErrV("AbortError")
VersionError == ErrV("VersionError")
CallbackError == ErrV("CallbackError")

Pending == [st |-> "pending", v |-> Undef]
Resolved(v) == [st |-> "resolved", v |-> v]
Rejected(e) == [st |-> "rejected", v |-> e]
\* resolve()/reject() of Promise.withResolvers: only the first call settles.
Resolve(p, v) == IF p.st = "pending" THEN Resolved(v) ELSE p
Reject(p, e) == IF p.st = "pending" THEN Rejected(e) ELSE p

\* --------------------------------------------------------------- schemas
NoVersion == 0
NoList == <<"none">>
Decl(name, indexes) == [name |-> name, indexes |-> indexes]
\* objectStores is absent (has = FALSE) or a list of declarations; the
\* indexes of a declaration are absent (NoList) or a list of index names.
SchemaOf(version, has, list) == [version |-> version, has |-> has, list |-> list]
Schemas ==
  { SchemaOf(NoVersion, FALSE, <<>>),
    SchemaOf(1, TRUE, << Decl("items", NoList) >>),
    SchemaOf(2, TRUE, << Decl("items", <<"byV">>), Decl("logs", NoList) >>),
    SchemaOf(1, TRUE, << Decl("logs", <<"byV", "byV">>) >>) }

\* ---------------------------------------------------------------- state
VARIABLES
  db,         \* #db: NoDb, or the id of the open request whose connection it is
  schema,     \* #schema
  nsets,      \* assignments made through the schema setter
  container,  \* host: [version, stores] of the named container
  saved,      \* host: the container before the upgrade, while one runs
  data,       \* host: committed records of each partition
  open,       \* per open() call: request state, captured schema, promise
  conn,       \* host: state of the connection of each open request
  tx,         \* per transaction() call: host transaction, callback, promise
  hasCommit   \* host: IDBTransaction has a commit method

vars == <<db, schema, nsets, container, saved, data, open, conn, tx, hasCommit>>

NoStore == [exists |-> FALSE, idx |-> {}]
EmptyContainer == [version |-> 0, stores |-> [s \in StoreNames |-> NoStore]]
EmptyData == [k \in Keys |-> NoRec]

\* --------------------------------------------------------------- getters
Thrown(e) == [ok |-> FALSE, v |-> e]
Returned(v) == [ok |-> TRUE, v |-> v]
ConnV(c) == V("connection", c, "", <<>>)
SchemaV(sc) == V("schema", sc.version, IF sc.has THEN "list" ELSE "nolist", <<>>)
NoSchema == SchemaOf(NoVersion, FALSE, NoList)

\* a getter without the check of lines 107-111
DbGetUnchecked == Returned(ConnV(db))

\* get db(): throws when #db is unset, else returns it.
DbGet == IF db = NoDb THEN Thrown(NotInitialized) ELSE Returned(ConnV(db))

\* get schema(): throws when #schema is unset, else returns it.
SchemaGet == IF schema = NoSchema THEN Thrown(NotInitialized)
             ELSE Returned(SchemaV(schema))

\* set schema(value)
SetSchema(sc) ==
  /\ nsets < MaxSets
  /\ schema' = sc
  /\ nsets' = nsets + 1
  /\ UNCHANGED <<db, container, saved, data, open, conn, tx, hasCommit>>

\* ------------------------------------------------------------ open()
CbKinds == {"absent", "returns", "throws"}
NoCalls == [onsuccess |-> 0, onerror |-> 0, onblocked |-> 0, onupgradeneeded |-> 0]
UnusedOpen ==
  [st |-> "unused", version |-> NoVersion, has |-> FALSE, list |-> <<>>,
   promise |-> Pending, blocked |-> FALSE, doomed |-> FALSE, clash |-> FALSE,
   calls |-> NoCalls]

\* callback?.onX?.(event): counted when the caller gave the handler
Call(calls, name, cb) ==
  IF cb = "absent" THEN calls ELSE [calls EXCEPT ![name] = @ + 1]

NextOpen(r) == open[r].st = "unused" /\ \A q \in OpenIds : q < r => open[q].st # "unused"

\* open(): reads the schema, issues one host open request, registers the
\* four handlers and returns the promise.
OpenCall(r) ==
  /\ NextOpen(r)
  /\ SchemaGet.ok
  /\ open' = [open EXCEPT ![r] =
       [UnusedOpen EXCEPT !.st = "pending", !.version = schema.version,
                          !.has = schema.has, !.list = schema.list]]
  /\ UNCHANGED <<db, schema, nsets, container, saved, data, conn, tx, hasCommit>>

\* host: the version an open request asks for
TargetVersion(r) ==
  IF open[r].version = NoVersion
  THEN (IF container.version = 0 THEN 1 ELSE container.version)
  ELSE open[r].version

\* host: open requests on one container are served in the order issued
AtHead(r) == \A q \in OpenIds : q < r => open[q].st \in {"success", "error"}

TxLiveOn(c) == \E t \in CallIds : tx[t].conn = c /\ tx[t].host \in {"live", "committing", "aborting"}
ConnBusy(c) == conn[c] = "open" \/ (conn[c] = "closed" /\ TxLiveOn(c))
OthersOpen(r) == \E c \in OpenIds : c # r /\ ConnBusy(c)

\* a blocked handler that gives up on the request
OnBlockedRejects(r, cb) ==
  /\ open[r].st = "pending" /\ AtHead(r) /\ ~open[r].blocked
  /\ TargetVersion(r) > container.version
  /\ OthersOpen(r)
  /\ open' = [open EXCEPT ![r].blocked = TRUE,
                          ![r].calls = Call(@, "onblocked", cb),
                          ![r].promise = Reject(@, UnknownError)]
  /\ UNCHANGED <<db, schema, nsets, container, saved, data, conn, tx, hasCommit>>

\* request.onblocked
OnBlocked(r, cb) ==
  /\ open[r].st = "pending" /\ AtHead(r) /\ ~open[r].blocked
  /\ TargetVersion(r) > container.version
  /\ OthersOpen(r)
  /\ open' = [open EXCEPT ![r].blocked = TRUE,
                          ![r].calls = Call(@, "onblocked", cb)]
  /\ UNCHANGED <<db, schema, nsets, container, saved, data, conn, tx, hasCommit>>

\* an existing partition whose indexes are not looked at again
AddMissingNone(idx, names) == idx

\* the loop of lines 208-216: create the declared indexes that are missing
RECURSIVE AddMissing(_, _)
AddMissing(idx, names) ==
  IF names = <<>> THEN idx
  ELSE AddMissing(idx \cup {Head(names)}, Tail(names))

\* a new partition left without its declared indexes
AddAllNone(acc, names) == acc

\* the loop of lines 230-232: create every declared index unconditionally;
\* ok is FALSE when the host raised ConstraintError for a repeated name.
RECURSIVE AddAll(_, _)
AddAll(acc, names) ==
  IF names = <<>> \/ ~acc.ok THEN acc
  ELSE IF Head(names) \in acc.idx THEN [acc EXCEPT !.ok = FALSE]
  ELSE AddAll([acc EXCEPT !.idx = @ \cup {Head(names)}], Tail(names))

\* the loop of lines 194-233 over the declared partitions
RECURSIVE ApplyStores(_, _)
ApplyStores(acc, list) ==
  IF list = <<>> \/ ~acc.ok THEN acc
  ELSE LET d == Head(list)
           cur == acc.stores[d.name]
       IN IF cur.exists
          THEN IF d.indexes = NoList
               THEN ApplyStores(acc, Tail(list))
               ELSE ApplyStores(
                      [acc EXCEPT !.stores[d.name].idx = AddMissing(cur.idx, d.indexes)],
                      Tail(list))
          ELSE IF d.indexes = NoList
               THEN ApplyStores(
                      [acc EXCEPT !.stores[d.name] = [exists |-> TRUE, idx |-> {}]],
                      Tail(list))
               ELSE LET made == AddAll([ok |-> TRUE, idx |-> {}], d.indexes)
                    IN ApplyStores(
                         [acc EXCEPT !.stores[d.name] = [exists |-> TRUE, idx |-> made.idx],
                                     !.ok = made.ok],
                         Tail(list))

\* request.onupgradeneeded
OnUpgradeNeeded(r, cb) ==
  /\ open[r].st = "pending" /\ AtHead(r)
  /\ TargetVersion(r) > container.version
  /\ ~OthersOpen(r)
  /\ LET run == IF open[r].has
                THEN ApplyStores([ok |-> TRUE, stores |-> container.stores], open[r].list)
                ELSE [ok |-> TRUE, stores |-> container.stores]
         called == open[r].has /\ run.ok /\ cb # "absent"
     IN /\ saved' = container
        /\ container' = [version |-> TargetVersion(r), stores |-> run.stores]
        /\ db' = r
        /\ conn' = [conn EXCEPT ![r] = "upgrading"]
        /\ open' = [open EXCEPT
             ![r].st = "upgrading",
             ![r].calls = IF called THEN Call(@, "onupgradeneeded", cb) ELSE @,
             ![r].doomed = ~run.ok \/ (called /\ cb = "throws"),
             ![r].clash = ~run.ok]
  /\ UNCHANGED <<schema, nsets, data, tx, hasCommit>>

\* a success handler that runs the upgrade work again
OnSuccessUpgrades(r, cb) ==
  /\ AtHead(r)
  /\ \/ open[r].st = "pending" /\ TargetVersion(r) = container.version
     \/ open[r].st = "upgrading" /\ ~open[r].doomed /\ conn[r] = "upgrading"
  /\ conn' = [conn EXCEPT ![r] = "open"]
  /\ db' = r
  /\ open' = [open EXCEPT
       ![r].st = "success",
       ![r].calls = Call(Call(@, "onupgradeneeded", cb), "onsuccess", cb),
       ![r].promise = IF cb = "throws" THEN @ ELSE Resolve(@, HandleV)]
  /\ container' = [container EXCEPT !.stores =
       ApplyStores([ok |-> TRUE, stores |-> @], open[r].list).stores]
  /\ saved' = EmptyContainer
  /\ UNCHANGED <<schema, nsets, data, tx, hasCommit>>

\* request.onsuccess
OnSuccess(r, cb) ==
  /\ AtHead(r)
  /\ \/ open[r].st = "pending" /\ TargetVersion(r) = container.version
     \/ open[r].st = "upgrading" /\ ~open[r].doomed /\ conn[r] = "upgrading"
  /\ conn' = [conn EXCEPT ![r] = "open"]
  /\ db' = r
  /\ open' = [open EXCEPT
       ![r].st = "success",
       ![r].calls = Call(@, "onsuccess", cb),
       ![r].promise = IF cb = "throws" THEN @ ELSE Resolve(@, HandleV)]
  /\ saved' = EmptyContainer
  /\ UNCHANGED <<schema, nsets, container, data, tx, hasCommit>>

\* request.onerror
OnError(r, cb) ==
  /\ AtHead(r)
  /\ open[r].st \in {"pending", "upgrading"}
  /\ LET err == IF open[r].st = "upgrading" THEN AbortError
                ELSE IF TargetVersion(r) < container.version THEN VersionError
                ELSE UnknownError
     IN open' = [open EXCEPT
          ![r].st = "error",
          ![r].calls = Call(@, "onerror", cb),
          ![r].promise = IF cb = "throws" THEN @ ELSE Reject(@, err)]
  /\ IF open[r].st = "upgrading"
     THEN /\ conn' = [conn EXCEPT ![r] = "closed"]
          /\ container' = IF open[r].doomed \/ conn[r] = "upgrading" THEN saved ELSE container
          /\ saved' = EmptyContainer
     ELSE UNCHANGED <<conn, container, saved>>
  /\ UNCHANGED <<db, schema, nsets, data, tx, hasCommit>>

\* close(): this.db.close()
Close ==
  /\ DbGet.ok
  /\ conn[db] \in {"open", "upgrading"}
  /\ conn' = [conn EXCEPT ![db] = IF @ = "open" THEN "closed" ELSE "upgradingClosed"]
  /\ UNCHANGED <<db, schema, nsets, container, saved, data, open, tx, hasCommit>>

\* close() called on the handle as it stands: the getter throws before any
\* host call, else the connection's close() returns
CloseOutcome == IF DbGet.ok THEN Returned(Undef) ELSE Thrown(DbGet.v)

\* ------------------------------------------------------- host requests
NoReq == [op |-> "none", k |-> 0, x |-> NoRec]
Req(op, k, x) == [op |-> op, k |-> k, x |-> x]
ReadReqs == {Req(op, k, NoRec) : op \in {"get", "getKey"}, k \in Keys}
            \cup {Req(op, 0, NoRec) : op \in {"count", "getAll", "getAllKeys"}}
WriteReqs == {Req(op, k, x) : op \in {"add", "put"}, k \in Keys, x \in Vals}
             \cup {Req("delete", k, NoRec) : k \in Keys}
             \cup {Req("clear", 0, NoRec)}

\* the mode each data operation passes to transaction() (lines 304-430)
OpMode(op) == IF op \in {"add", "clear", "delete", "put"} THEN "readwrite" ELSE "readonly"

RECURSIVE Listing(_, _, _)
Listing(view, k, keysOnly) ==
  IF k > MaxKey THEN <<>>
  ELSE IF view[k] = NoRec THEN Listing(view, k + 1, keysOnly)
  ELSE << <<k, IF keysOnly THEN "" ELSE view[k]>> >> \o Listing(view, k + 1, keysOnly)

\* host: the result of one object-store method on the partition contents
Exec(view, rq) ==
  CASE rq.op = "add" ->
         IF view[rq.k] # NoRec
         THEN [ok |-> FALSE, v |-> ConstraintError, view |-> view]
         ELSE [ok |-> TRUE, v |-> KeyV(rq.k), view |-> [view EXCEPT ![rq.k] = rq.x]]
    [] rq.op = "put" ->
         [ok |-> TRUE, v |-> KeyV(rq.k), view |-> [view EXCEPT ![rq.k] = rq.x]]
    [] rq.op = "delete" ->
         [ok |-> TRUE, v |-> Undef, view |-> [view EXCEPT ![rq.k] = NoRec]]
    [] rq.op = "clear" ->
         [ok |-> TRUE, v |-> Undef, view |-> [k \in Keys |-> NoRec]]
    [] rq.op = "get" ->
         [ok |-> TRUE, view |-> view,
          v |-> IF view[rq.k] = NoRec THEN Undef ELSE RecV(rq.k, view[rq.k])]
    [] rq.op = "getKey" ->
         [ok |-> TRUE, view |-> view,
          v |-> IF view[rq.k] = NoRec THEN Undef ELSE KeyV(rq.k)]
    [] rq.op = "count" ->
         [ok |-> TRUE, view |-> view,
          v |-> NumV(Cardinality({k \in Keys : view[k] # NoRec}))]
    [] rq.op = "getAll" ->
         [ok |-> TRUE, view |-> view, v |-> ListV(Listing(view, 1, FALSE))]
    [] OTHER ->
         [ok |-> TRUE, view |-> view, v |-> ListV(Listing(view, 1, TRUE))]

\* ------------------------------------------------------ transaction()
UnusedTx ==
  [pc |-> "unused",       \* position of the async body of transaction()
   kind |-> "none",       \* "op": one of the nine data operations; "user"
   mode |-> "readonly",   \* the mode argument ("omitted" when left out)
   store |-> "items",
   op |-> NoReq,          \* the request of a data operation
   conn |-> NoDb,
   host |-> "none",       \* host transaction
   started |-> FALSE,     \* host: the transaction has run a request
   base |-> EmptyData,    \* host: partition contents when it started
   view |-> EmptyData,    \* host: partition contents as the transaction sees them
   req |-> NoReq,         \* pending request the callback awaits
   loose |-> FALSE,       \* pending request the callback does not await
   nreq |-> 0,            \* requests issued and awaited
   reqOut |-> "none",     \* outcome of the last awaited request
   reqVal |-> Undef,
   cbOut |-> "none",      \* how the callback ended: "value" or "error"
   cbVal |-> Undef,
   result |-> Undef,      \* the local variable result
   promise |-> Pending,   \* the promise of Promise.withResolvers
   exc |-> Undef,         \* exception the async body ended with
   commits |-> 0,         \* calls of transaction.commit()
   aborts |-> 0,          \* calls of transaction.abort()
   errSeen |-> "none",    \* promise state when transaction.onerror first ran
   errVal |-> Undef]      \* the error of that event

Awaiting(t) == tx[t].pc \in {"awaitReq", "awaitOther"}
Live(h) == h \in {"live", "committing", "aborting"}

\* the promise an async transaction() call returned to its caller
Outer(t) ==
  CASE tx[t].pc \in {"unused", "awaitReq", "awaitOther"} -> Pending
    [] tx[t].pc = "threw" -> Rejected(tx[t].exc)
    [] OTHER -> tx[t].promise

HostMode(m) == IF m = "readwrite" THEN "readwrite" ELSE "readonly"

\* line 270
IsCommittable(m) == hasCommit /\ m # "readonly"

\* host: transactions with overlapping scope run in creation order unless
\* both are read-only
Conflict(t, u) ==
  /\ tx[t].store = tx[u].store
  /\ "readwrite" \in {HostMode(tx[t].mode), HostMode(tx[u].mode)}
CanRun(t) == \A u \in CallIds : (u < t /\ Live(tx[u].host)) => ~Conflict(t, u)

\* lines 284-288: the callback resolved with v.  active: the host
\* transaction is active (creation task or event dispatch).
AfterReturn(T, v, active) ==
  LET T1 == [T EXCEPT !.cbOut = "value", !.cbVal = v, !.result = v]
  IN IF ~IsCommittable(T.mode) THEN [T1 EXCEPT !.pc = "returned"]
     ELSE IF T.host = "live" /\ active
     THEN [T1 EXCEPT !.pc = "returned", !.commits = @ + 1, !.host = "committing"]
     ELSE IF T.host = "live"
     THEN \* commit() raises on an inactive transaction, abort() works
          [T1 EXCEPT !.pc = "returned", !.commits = @ + 1, !.aborts = @ + 1,
                     !.host = "aborting",
                     !.promise = Reject(@, InvalidStateError)]
     ELSE \* commit() and abort() both raise on a finished transaction
          [T1 EXCEPT !.pc = "threw", !.commits = @ + 1, !.aborts = @ + 1,
                     !.exc = InvalidStateError]

\* lines 289-292: the callback threw or rejected with e
AfterThrow(T, e) ==
  LET T1 == [T EXCEPT !.cbOut = "error", !.cbVal = e]
  IN IF T.host = "live"
     THEN [T1 EXCEPT !.pc = "returned", !.aborts = @ + 1, !.host = "aborting",
                     !.promise = Reject(@, e)]
     ELSE [T1 EXCEPT !.pc = "threw", !.aborts = @ + 1, !.exc = InvalidStateError]

\* an error handler whose rejection replaces an earlier settlement
OnTxErrorLastWins(T, e) ==
  [T EXCEPT !.promise = Rejected(e),
            !.errSeen = IF @ = "none" THEN T.promise.st ELSE @,
            !.errVal = IF T.errSeen = "none" THEN e ELSE @]

\* transaction.onerror, lines 277-281
OnTxError(T, e) ==
  [T EXCEPT !.promise = Reject(@, e),
            !.errSeen = IF @ = "none" THEN T.promise.st ELSE @,
            !.errVal = IF T.errSeen = "none" THEN e ELSE @]

\* transaction.oncomplete, lines 273-275
OnComplete(T) == [T EXCEPT !.promise = Resolve(@, T.result)]

\* the requests a caller's callback issues and awaits: a read of the first
\* record and, in a read-write transaction, an add of it
UserReqs(m) ==
  {Req("get", 1, NoRec)}
  \cup (IF HostMode(m) = "readwrite" THEN {Req("add", 1, "a")} ELSE {})

\* what a caller's callback does next
Segments(T, active) ==
  {[next |-> n, req |-> NoReq] : n \in {"return", "throw", "awaitOther"}}
  \cup {[next |-> "awaitReq", req |-> rq] :
          rq \in IF active /\ T.host = "live" /\ T.nreq < MaxReq
                 THEN UserReqs(T.mode) ELSE {}}

\* run the callback up to its next await, then the rest of the body
Continue(T, seg, active) ==
  CASE seg.next = "return" -> AfterReturn(T, CbValue, active)
    [] seg.next = "throw" -> AfterThrow(T, CallbackError)
    [] seg.next = "awaitOther" -> [T EXCEPT !.pc = "awaitOther"]
    [] OTHER -> [T EXCEPT !.pc = "awaitReq", !.req = seg.req, !.nreq = @ + 1]

NextTx(t) == tx[t].pc = "unused" /\ \A u \in CallIds : u < t => tx[u].pc # "unused"

\* lines 262-292 up to the first await of the callback: this.db, the host
\* transaction, the two handlers, the callback's first run.
TxCall(t, kind, s, mode, seg, loose) ==
  /\ NextTx(t)
  /\ LET T0 == [UnusedTx EXCEPT !.kind = kind, !.mode = mode, !.store = s,
                                !.op = IF kind = "op" THEN seg.req ELSE NoReq]
     IN tx' = [tx EXCEPT ![t] =
          IF ~DbGet.ok
          THEN [T0 EXCEPT !.pc = "threw", !.exc = DbGet.v]
          ELSE IF conn[db] # "open"
          THEN [T0 EXCEPT !.pc = "threw", !.exc = InvalidStateError]
          ELSE IF ~container.stores[s].exists
          THEN [T0 EXCEPT !.pc = "threw", !.exc = NotFoundError]
          ELSE Continue([T0 EXCEPT !.host = "live", !.conn = db, !.loose = loose],
                        seg, TRUE)]
  /\ UNCHANGED <<db, schema, nsets, container, saved, data, open, conn, hasCommit>>

\* transaction(storeName, mode, options, callback) with a caller's callback
Transaction(t, s, mode, seg, loose) == TxCall(t, "user", s, mode, seg, loose)

\* add, clear, count, delete, get, getAll, getAllKeys, getKey, put
DataOp(t, s, rq) ==
  TxCall(t, "op", s, OpMode(rq.op), [next |-> "awaitReq", req |-> rq], FALSE)

\* a bridge that resolves without the request's result
BridgeSuccessDrops(result) == Returned(Undef)

\* #transactionCallback: request.onsuccess resolves with the result,
\* request.onerror rejects with the error
BridgeSuccess(result) == Returned(result)
BridgeError(error) == Thrown(error)

\* a data operation's callback ends as the bridge promise does
Settle(T, out) ==
  IF out.ok THEN AfterReturn(T, out.v, TRUE) ELSE AfterThrow(T, out.v)

\* host: success event of the awaited request
ReqSuccess(t, seg) ==
  LET T == tx[t]
      cur == IF T.started THEN T.view ELSE data[T.store]
      ex == Exec(cur, T.req)
      T1 == [T EXCEPT !.started = TRUE, !.base = IF T.started THEN @ ELSE cur,
                      !.view = ex.view, !.req = NoReq,
                      !.reqOut = "success", !.reqVal = ex.v]
  IN /\ T.host = "live" /\ T.req # NoReq /\ CanRun(t)
     /\ ex.ok
     /\ seg \in Segments(T1, TRUE)
     /\ tx' = [tx EXCEPT ![t] =
          IF T.kind = "op" THEN Settle(T1, BridgeSuccess(ex.v))
          ELSE Continue(T1, seg, TRUE)]
     /\ UNCHANGED <<db, schema, nsets, container, saved, data, open, conn, hasCommit>>

\* host: error event of the awaited request, bubbling to the transaction;
\* no handler on the way prevents the default, so the host then aborts the
\* transaction unless the wrapper already committed or aborted it
ReqError(t, hostFail, seg) ==
  LET T == tx[t]
      cur == IF T.started THEN T.view ELSE data[T.store]
      ex == Exec(cur, T.req)
      err == IF T.host = "aborting" THEN AbortError
             ELSE IF ex.ok THEN UnknownError ELSE ex.v
      T1 == [T EXCEPT !.req = NoReq, !.reqOut = "error", !.reqVal = err]
      T2 == IF T.kind = "op" THEN Settle(T1, BridgeError(err))
            ELSE Continue(T1, seg, TRUE)
      T3 == OnTxError(T2, err)
  IN /\ T.req # NoReq
     /\ \/ T.host = "live" /\ CanRun(t) /\ (hostFail \/ ~ex.ok)
        \/ T.host = "aborting"
     /\ seg \in Segments(T1, TRUE)
     /\ tx' = [tx EXCEPT ![t] =
          IF T3.host = "live" THEN [T3 EXCEPT !.host = "aborting"] ELSE T3]
     /\ UNCHANGED <<db, schema, nsets, container, saved, data, open, conn, hasCommit>>

\* host: success event of a request nobody awaits
LooseSuccess(t) ==
  /\ tx[t].loose /\ tx[t].host \in {"live", "committing"} /\ CanRun(t)
  /\ tx' = [tx EXCEPT ![t].loose = FALSE]
  /\ UNCHANGED <<db, schema, nsets, container, saved, data, open, conn, hasCommit>>

\* host: error event of a request nobody awaits, bubbling to the
\* transaction; the caller's own handler may have prevented the default
LooseError(t, prevented) ==
  LET T == tx[t]
      err == IF T.host = "aborting" THEN AbortError ELSE UnknownError
      T1 == OnTxError([T EXCEPT !.loose = FALSE], err)
  IN /\ T.loose
     /\ (T.host = "live" /\ CanRun(t)) \/ T.host = "aborting"
     /\ tx' = [tx EXCEPT ![t] =
          IF T1.host = "live" /\ ~prevented THEN [T1 EXCEPT !.host = "aborting"] ELSE T1]
     /\ UNCHANGED <<db, schema, nsets, container, saved, data, open, conn, hasCommit>>

\* the work the callback awaited outside the host finishes; the callback
\* ends in a task in which the host transaction is not active
OtherDone(t, seg) ==
  /\ tx[t].pc = "awaitOther"
  /\ seg.next \in {"return", "throw"}
  /\ tx' = [tx EXCEPT ![t] = Continue(tx[t], seg, FALSE)]
  /\ UNCHANGED <<db, schema, nsets, container, saved, data, open, conn, hasCommit>>

\* host: a transaction with no pending request that is not active commits
HostAutoCommit(t) ==
  /\ tx[t].host = "live" /\ tx[t].req = NoReq /\ ~tx[t].loose
  /\ tx' = [tx EXCEPT ![t].host = "committing"]
  /\ UNCHANGED <<db, schema, nsets, container, saved, data, open, conn, hasCommit>>

\* a wrapper that keeps resolve in a field of the handle: the complete
\* event of one call resolves the pending promise of every call
HostCompleteAll(t) ==
  LET T == tx[t]
  IN /\ T.host = "committing" /\ ~T.loose
     /\ data' = [data EXCEPT ![T.store] =
          IF T.started /\ HostMode(T.mode) = "readwrite" THEN T.view ELSE @]
     /\ tx' = [u \in CallIds |->
          IF u = t THEN OnComplete([T EXCEPT !.host = "complete"])
          ELSE IF tx[u].pc = "unused" THEN tx[u]
          ELSE [tx[u] EXCEPT !.promise = Resolve(@, T.result)]]
     /\ UNCHANGED <<db, schema, nsets, container, saved, open, conn, hasCommit>>

\* host: the commit succeeded; transaction.oncomplete
HostComplete(t) ==
  LET T == tx[t]
  IN /\ T.host = "committing" /\ ~T.loose
     /\ data' = [data EXCEPT ![T.store] =
          IF T.started /\ HostMode(T.mode) = "readwrite" THEN T.view ELSE @]
     /\ tx' = [tx EXCEPT ![t] = OnComplete([T EXCEPT !.host = "complete"])]
     /\ UNCHANGED <<db, schema, nsets, container, saved, open, conn, hasCommit>>

\* host: the commit failed; an abort event and no error event.  The
\* wrapper registers no abort handler.
HostCommitFail(t) ==
  /\ tx[t].host = "committing" /\ ~tx[t].loose
  /\ HostMode(tx[t].mode) = "readwrite"
  /\ tx' = [tx EXCEPT ![t].host = "aborted"]
  /\ UNCHANGED <<db, schema, nsets, container, saved, data, open, conn, hasCommit>>

\* host: the abort event of an aborted transaction, after the error events
\* of its pending requests
HostAbort(t) ==
  /\ tx[t].host = "aborting" /\ tx[t].req = NoReq /\ ~tx[t].loose
  /\ tx' = [tx EXCEPT ![t].host = "aborted"]
  /\ UNCHANGED <<db, schema, nsets, container, saved, data, open, conn, hasCommit>>

\* ----------------------------------------------------- specification
Modes == {"omitted", "readonly", "readwrite"}
FirstSegments(m) ==
  {[next |-> n, req |-> NoReq] : n \in {"return", "throw", "awaitOther"}}
  \cup {[next |-> "awaitReq", req |-> rq] : rq \in UserReqs(m)}
AnySegment == FirstSegments("readwrite")
\* the callbacks with a request they do not await are those that go on to
\* await work outside the host
LooseWith(seg) == IF seg.next = "awaitOther" THEN BOOLEAN ELSE {FALSE}

\* the state after new IDB(schema)
Init ==
  /\ db = NoDb
  /\ schema \in Schemas
  /\ nsets = 0
  /\ container = EmptyContainer
  /\ saved = EmptyContainer
  /\ data = [s \in StoreNames |-> EmptyData]
  /\ open = [r \in OpenIds |-> UnusedOpen]
  /\ conn = [r \in OpenIds |-> "none"]
  /\ tx = [t \in CallIds |-> UnusedTx]
  /\ hasCommit = TRUE   \* not read before the first transaction

\* a handle whose first open() created the container from the one-partition
\* schema and succeeded; the partition may hold a first record already
OpenedSchema == SchemaOf(1, TRUE, << Decl("items", NoList) >>)
InitOpened ==
  /\ db = 1
  /\ schema = OpenedSchema
  /\ nsets = 0
  /\ container = [version |-> 1,
                  stores |-> [s \in StoreNames |->
                     IF s = "items" THEN [exists |-> TRUE, idx |-> {}] ELSE NoStore]]
  /\ saved = EmptyContainer
  /\ \E x \in {"a", NoRec} :
       data = [s \in StoreNames |->
                 IF s = "items" THEN [EmptyData EXCEPT ![1] = x] ELSE EmptyData]
  /\ open = [r \in OpenIds |->
       IF r = 1
       THEN [UnusedOpen EXCEPT !.st = "success", !.version = 1, !.has = TRUE,
                               !.list = OpenedSchema.list,
                               !.promise = Resolved(HandleV)]
       ELSE UnusedOpen]
  /\ conn = [r \in OpenIds |-> IF r = 1 THEN "open" ELSE "none"]
  /\ tx = [t \in CallIds |-> UnusedTx]
  /\ hasCommit \in BOOLEAN

NextOpenPart ==
  \/ \E sc \in Schemas : SetSchema(sc)
  \/ \E r \in OpenIds : OpenCall(r)
  \/ \E r \in OpenIds, cb \in CbKinds : OnBlocked(r, cb)
  \/ \E r \in OpenIds, cb \in CbKinds : OnUpgradeNeeded(r, cb)
  \/ \E r \in OpenIds, cb \in CbKinds : OnSuccess(r, cb)
  \/ \E r \in OpenIds, cb \in CbKinds : OnError(r, cb)
  \/ Close

NextTxPart ==
  \/ \E t \in TxIds, s \in StoreNames, m \in Modes :
       \E seg \in FirstSegments(m) : \E l \in LooseWith(seg) : Transaction(t, s, m, seg, l)
  \/ \E t \in TxIds, s \in StoreNames, rq \in ReadReqs \cup WriteReqs : DataOp(t, s, rq)
  \/ \E t \in TxIds, seg \in AnySegment : ReqSuccess(t, seg)
  \/ \E t \in TxIds, f \in BOOLEAN, seg \in AnySegment : ReqError(t, f, seg)
  \/ \E t \in TxIds : LooseSuccess(t)
  \/ \E t \in TxIds, p \in BOOLEAN : LooseError(t, p)
  \/ \E t \in TxIds, seg \in AnySegment : OtherDone(t, seg)
  \/ \E t \in TxIds : HostAutoCommit(t)
  \/ \E t \in TxIds : HostComplete(t)
  \/ \E t \in TxIds : HostCommitFail(t)
  \/ \E t \in TxIds : HostAbort(t)

\* the open()/close() life cycle of a newly constructed handle
SpecOpen == Init /\ [][NextOpenPart]_vars

\* transactions and data operations on an opened handle
SpecTx == InitOpened /\ [][NextTxPart]_vars

NextUnopenedPart ==
  \/ \E r \in OpenIds : OpenCall(r)
  \/ \E r \in OpenIds, cb \in CbKinds : open[r].st = "pending" /\ OnError(r, cb)
  \/ \E t \in TxIds, s \in StoreNames, m \in Modes :
       \E seg \in FirstSegments(m) : \E l \in LooseWith(seg) : Transaction(t, s, m, seg, l)
  \/ \E t \in TxIds, s \in StoreNames, rq \in ReadReqs \cup WriteReqs : DataOp(t, s, rq)

\* calls on a handle whose open() requests, if any, the host refused
SpecUnopened == Init /\ [][NextUnopenedPart]_vars

\* the data operations that write one record or read it back
KeyedReqs == {rq \in ReadReqs \cup WriteReqs : rq.op \in {"put", "add", "delete", "get"}}

\* an opened handle on a host whose transactions have commit()
InitOps == InitOpened /\ hasCommit

\* a caller's callback that returns or throws without awaiting
DirectSegments == {[next |-> n, req |-> NoReq] : n \in {"return", "throw"}}

NextOpsPart ==
  \/ \E t \in OpIds, s \in StoreNames, rq \in KeyedReqs : DataOp(t, s, rq)
  \/ \E t \in OpIds, seg \in DirectSegments : Transaction(t, "items", "readwrite", seg, FALSE)
  \/ \E t \in OpIds, seg \in AnySegment : ReqSuccess(t, seg)
  \/ \E t \in OpIds, f \in BOOLEAN, seg \in AnySegment : ReqError(t, f, seg)
  \/ \E t \in OpIds : HostAutoCommit(t)
  \/ \E t \in OpIds : HostComplete(t)
  \/ \E t \in OpIds : HostCommitFail(t)
  \/ \E t \in OpIds : HostAbort(t)

\* put, add, delete, get and read-write transactions whose callback ends at
\* once, issued one after another on an opened handle, each while the
\* earlier ones may still be in flight
SpecOps == InitOps /\ [][NextOpsPart]_vars

\* ================================================================ claims
Finished(t) == tx[t].host \in {"complete", "aborted"}

\* C1: the promise transaction() returned resolves only once the host has
\* fired complete on its transaction, and then with the value the callback
\* returned.
C1_ResolvesWithCallbackValue ==
  \A t \in TxIds :
    Outer(t).st = "resolved" =>
      /\ tx[t].host = "complete"
      /\ tx[t].cbOut = "value"
      /\ Outer(t).v = tx[t].cbVal

\* C2: a read-write transaction whose callback threw or rejected leaves the
\* partition holding what it held when the transaction started.
C2_FailedCallbackLeavesStore ==
  \A t \in TxIds :
    (HostMode(tx[t].mode) = "readwrite" /\ tx[t].cbOut = "error" /\ tx[t].started)
      => data[tx[t].store] = tx[t].base

\* C3: once the host transaction has finished and the callback has ended,
\* the returned promise is settled, and it is rejected when the host
\* transaction aborted.
C3_SettlesWhenHostFinishes ==
  \A t \in TxIds :
    (Finished(t) /\ ~Awaiting(t)) =>
      /\ Outer(t).st # "pending"
      /\ tx[t].host = "aborted" => Outer(t).st = "rejected"

\* C4: when the callback threw or rejected, abort() was called on the host
\* transaction and the returned promise is rejected with the callback's error.
C4_RejectsWithCallbackError ==
  \A t \in TxIds :
    tx[t].cbOut = "error" =>
      /\ tx[t].aborts >= 1
      /\ Outer(t) = Rejected(tx[t].cbVal)

\* C5 as stated: whenever the host reported an error on the transaction, the
\* returned promise is rejected with that host error, whatever the callback did.
C5_HostErrorAlwaysWins ==
  \A t \in TxIds :
    (tx[t].errSeen # "none" /\ ~Awaiting(t)) => Outer(t) = Rejected(tx[t].errVal)

\* C5 amended: a host error that arrives while the wrapper's promise is
\* pending rejects it with the host error, whether the callback is still
\* running or has succeeded; one that arrives after the callback failed
\* leaves the earlier rejection in place; the returned promise carries that
\* reason, or the InvalidStateError commit()/abort() raised on a finished
\* transaction.
C5_FirstSettlementWins ==
  \A t \in TxIds :
    tx[t].errSeen # "none" =>
      /\ tx[t].errSeen \in {"pending", "rejected"}
      /\ tx[t].promise.st = "rejected"
      /\ tx[t].errSeen = "pending" => tx[t].promise.v = tx[t].errVal
      /\ (tx[t].errSeen = "rejected" /\ tx[t].cbOut = "error")
           => tx[t].promise.v = tx[t].cbVal
      /\ (tx[t].errSeen = "rejected" /\ tx[t].cbOut # "error")
           => tx[t].promise.v = InvalidStateError
      /\ ~Awaiting(t) => Outer(t) \in {tx[t].promise, Rejected(InvalidStateError)}
      /\ tx[t].pc = "returned" => Outer(t) = tx[t].promise

\* C5 witness: the host error arrived while the callback was awaiting work
\* outside the host, and the wrapper's promise carries the host error.
C5_Witness ==
  \E t \in TxIds :
    /\ tx[t].errSeen = "pending" /\ tx[t].pc = "awaitOther"
    /\ tx[t].promise = Rejected(tx[t].errVal)

\* C6: a finished data operation issued exactly one request in a transaction
\* of its mode, and its promise mirrors the request: resolved with the
\* request's result, or rejected with the request's error.
C6_OperationMirrorsRequest ==
  \A t \in TxIds :
    (tx[t].kind = "op" /\ Finished(t)) =>
      /\ tx[t].nreq = 1
      /\ tx[t].reqOut = "success" => Outer(t) = Resolved(tx[t].reqVal)
      /\ tx[t].reqOut = "error" => Outer(t) = Rejected(tx[t].reqVal)

\* C7: after an open() ended with the host's error event and a rejected
\* promise, the handle does not hold that request's connection, and with no
\* successful open reading db still fails.
C7_FailedOpenStoresNothing ==
  \A r \in OpenIds :
    (open[r].st = "error" /\ open[r].promise.st = "rejected") =>
      /\ db # r
      /\ (\A q \in OpenIds : open[q].st # "success") => ~DbGet.ok

\* C8: every open request the host answered with success has its promise
\* resolved with the handle.
C8_SuccessResolves ==
  \A r \in OpenIds : open[r].st = "success" => open[r].promise = Resolved(HandleV)

\* C9: the step in which the host delivers blocked to a request changes
\* neither the promise of that request nor the handle's connection or
\* schema, and runs no callback but the blocked one; the promise leaves
\* pending only in the step of the request's success or error event.
C9_BlockedOnlyCallsBack ==
  [][\A r \in OpenIds :
       /\ (~open[r].blocked /\ open'[r].blocked) =>
            /\ open'[r].promise = open[r].promise
            /\ open'[r].promise.st = "pending"
            /\ open'[r].st = "pending"
            /\ db' = db /\ schema' = schema /\ conn' = conn /\ container' = container
            /\ \A h \in {"onsuccess", "onerror", "onupgradeneeded"} :
                 open'[r].calls[h] = open[r].calls[h]
       /\ (open[r].promise.st = "pending" /\ open'[r].promise.st # "pending") =>
            /\ open[r].st \in {"pending", "upgrading"}
            /\ open'[r].st \in {"success", "error"}]_vars

\* C9 witness: a request that got blocked, ran the blocked callback and is
\* still pending.
C9_Witness ==
  \E r \in OpenIds :
    /\ open[r].blocked /\ open[r].calls.onblocked = 1
    /\ open[r].st = "pending" /\ open[r].promise.st = "pending"

C11_NoConnectionThrowsAtCall ==
  /\ db = NoDb => CloseOutcome = Thrown(NotInitialized)
  /\ \A t \in TxIds :
       tx[t].exc = NotInitialized =>
         /\ tx[t].host = "none" /\ tx[t].conn = NoDb
         /\ Outer(t).st # "rejected"

\* what a list of declarations says about partition s
DeclaredStore(list, s) == \E i \in 1..Len(list) : list[i].name = s
DeclaredIdx(list, s) ==
  UNION { IF list[i].name = s /\ list[i].indexes # NoList
          THEN {list[i].indexes[j] : j \in 1..Len(list[i].indexes)}
          ELSE {} : i \in 1..Len(list) }

\* C12: after the first open() of a handle succeeded against the container
\* that did not exist before, and before any later request touched it, the
\* container holds exactly the declared partitions, each with exactly its
\* declared indexes.
C12_FreshOpenCreatesDeclared ==
  (open[1].st = "success" /\ \A q \in OpenIds : q > 1 => conn[q] = "none") =>
    \A s \in StoreNames :
      /\ container.stores[s].exists <=> DeclaredStore(open[1].list, s)
      /\ container.stores[s].idx = DeclaredIdx(open[1].list, s)

\* C12 witness: the first open() succeeded with the schema of two
\* partitions, one of them with an index, and both are there.
C12_Witness ==
  /\ open[1].st = "success" /\ Len(open[1].list) = 2
  /\ \A q \in OpenIds : q > 1 => conn[q] = "none"
  /\ container.stores["items"].idx = {"byV"}
  /\ container.stores["logs"].exists

\* C13: the step that ends an open request whose version is the one the
\* container already has (the same schema opened again, through the same
\* handle or another) is a success or an error event; it runs no upgrade
\* callback and leaves the version, the partitions and the indexes of the
\* container as they were.
C13_ReopenAtVersionIsIdle ==
  [][\A r \in OpenIds :
       (/\ open[r].st = "pending" /\ open'[r].st # "pending"
        /\ container.version >= 1
        /\ TargetVersion(r) = container.version) =>
         /\ open'[r].st \in {"success", "error"}
         /\ open'[r].calls.onupgradeneeded = 0
         /\ container' = container]_vars

\* C13 witness: a second open() with the schema and version of the first
\* succeeded on the upgraded container without an upgrade.
C13_Witness ==
  \E r \in OpenIds :
    /\ r > 1 /\ open[1].st = "success" /\ open[r].st = "success"
    /\ open[1].has /\ Len(open[1].list) >= 1
    /\ open[r].list = open[1].list /\ open[r].version = open[1].version
    /\ open[r].calls.onsuccess = 1 /\ open[r].calls.onupgradeneeded = 0
    /\ \A s \in StoreNames : container.stores[s].exists <=> DeclaredStore(open[r].list, s)

\* C14: no upgrade handler has asked the host to create a partition or an
\* index under a name that already existed there.
C14_NeverCreatesExisting ==
  \A r \in OpenIds : ~open[r].clash

\* call t is the data operation name on key k of partition s
IsOp(t, name, s, k) ==
  tx[t].kind = "op" /\ tx[t].op.op = name /\ tx[t].op.k = k /\ tx[t].store = s
\* no call issued between t and u writes key k of partition s
NoWriteBetween(t, u, s, k) ==
  \A w \in OpIds :
    (t < w /\ w < u) =>
      ~(tx[w].kind = "op" /\ tx[w].store = s /\ OpMode(tx[w].op.op) = "readwrite"
          /\ tx[w].op.k \in {0, k})

\* C15: a get that follows a resolved put or add of the same key, with no
\* other write of that key in between, resolves with the record stored; a
\* get that follows a resolved delete of the key resolves with undefined.
C15_GetReadsBackLastWrite ==
  \A t, u \in OpIds : \A s \in StoreNames : \A k \in Keys :
    (/\ t < u /\ IsOp(u, "get", s, k) /\ NoWriteBetween(t, u, s, k)
     /\ Outer(t).st = "resolved" /\ Outer(u).st = "resolved") =>
      /\ (IsOp(t, "put", s, k) \/ IsOp(t, "add", s, k))
           => Outer(u).v = RecV(k, tx[t].op.x)
      /\ IsOp(t, "delete", s, k) => Outer(u).v = Undef

\* C15 witness: put replaced the record of key 1 and the get after it
\* resolved with the new record.
C15_Witness ==
  /\ IsOp(1, "put", "items", 1) /\ tx[1].op.x = "b" /\ tx[1].base[1] = "a"
  /\ Outer(1).st = "resolved"
  /\ IsOp(2, "get", "items", 1) /\ Outer(2) = Resolved(RecV(1, "b"))

\* C16: of the connections the host opened for the handle's open() calls,
\* at most one is not closed, and it is the one db refers to.
C16_AtMostOneOpenConnection ==
  /\ Cardinality({c \in OpenIds : conn[c] \in {"open", "upgrading"}}) <= 1
  /\ \A c \in OpenIds : conn[c] \in {"open", "upgrading"} => db = c

\* C17: every upgrade-needed event delivered to an open() that was given an
\* upgrade callback, and whose handler the host did not stop, stores the
\* connection and calls that callback once, whatever the schema declares.
C17_UpgradeCallbackRunsOnce ==
  [][\A r \in OpenIds : \A cb \in {"returns", "throws"} :
       (OnUpgradeNeeded(r, cb) /\ ~open'[r].clash) =>
         /\ db' = r
         /\ open'[r].calls.onupgradeneeded = open[r].calls.onupgradeneeded + 1]_vars

\* C18: commit() has been called on a transaction only if the host has
\* commit(), the host transaction is read-write and the callback resolved,
\* and it has been called once when all three hold.
C18_CommitOnlyReadWrite ==
  \A t \in TxIds :
    LET able == hasCommit /\ HostMode(tx[t].mode) = "readwrite" /\ tx[t].cbOut = "value"
    IN /\ tx[t].commits >= 1 => able
       /\ able => tx[t].commits = 1

\* C19: the upgrade handler that ran through its loop leaves every declared
\* partition in place with every index declared for it; on a partition that
\* existed before it adds exactly the declared indexes that were missing and
\* keeps the others, and it changes no record.  After the open() succeeded,
\* and until a later request touches the container, the declared indexes
\* are on their partitions.
C19_UpgradeReconcilesIndexes ==
  /\ [][\A r \in OpenIds :
          (open[r].st = "pending" /\ open'[r].st = "upgrading" /\ ~open'[r].clash) =>
            /\ \A s \in StoreNames :
                 /\ DeclaredStore(open[r].list, s) =>
                      /\ container'.stores[s].exists
                      /\ DeclaredIdx(open[r].list, s) \subseteq container'.stores[s].idx
                 /\ container.stores[s].exists =>
                      /\ container'.stores[s].exists
                      /\ container'.stores[s].idx =
                           container.stores[s].idx \cup DeclaredIdx(open[r].list, s)
            /\ data' = data]_vars
  /\ [](\A r \in OpenIds :
          (/\ open[r].st = "success" /\ open[r].calls.onupgradeneeded >= 1
           /\ \A q \in OpenIds : q > r => conn[q] = "none") =>
            \A s \in StoreNames :
              DeclaredStore(open[r].list, s) =>
                /\ container.stores[s].exists
                /\ DeclaredIdx(open[r].list, s) \subseteq container.stores[s].idx)

\* C19 witness: the second open() upgraded a container whose partition
\* items existed without an index, and the declared index is now on it.
C19_Witness ==
  \E r \in OpenIds :
    /\ r > 1 /\ open[1].st = "success" /\ open[1].list = << Decl("items", NoList) >>
    /\ open[r].st = "success" /\ open[r].calls.onupgradeneeded = 1
    /\ DeclaredIdx(open[r].list, "items") = {"byV"}
    /\ container.version = open[r].version
    /\ container.stores["items"].idx = {"byV"}

\* the errors call t met itself: its callback's, its host transaction's,
\* the one its own commit() or abort() raised, the one that ended its body
OwnErrors(t) ==
  (IF tx[t].cbOut = "error" THEN {tx[t].cbVal} ELSE {})
  \cup (IF tx[t].errSeen # "none" THEN {tx[t].errVal} ELSE {})
  \cup (IF tx[t].commits + tx[t].aborts >= 1 THEN {InvalidStateError} ELSE {})
  \cup (IF tx[t].pc = "threw" THEN {tx[t].exc} ELSE {})

====
